---------------------------- MODULE Spec2Model ----------------------------
(***************************************************************************)
(* ARKlinko: the Plinko board of client/src/pages/plinko-game.tsx          *)
(* (PlinkoCanvas) and the page that drives it (ARKlinko).                  *)
(*                                                                         *)
(* Numbers.  The program computes in IEEE doubles; the model computes in   *)
(* fixed point.  A length or a velocity is an integer count of 1/Scale     *)
(* pixel, a unit vector is an integer count of 1/NormScale, Math.random()  *)
(* is an integer count of 1/1000, a multiplier is an integer count of      *)
(* 1/100 and a bet is an integer count of 1/100000 ARK.  Products are      *)
(* divided back with TDiv, which rounds toward zero as a symmetric         *)
(* rounding does.  NaN is kept apart (the field nan of a ball): the four   *)
(* numeric fields of a ball become NaN together (resolveBallPegCollision   *)
(* with distance 0), and from then on every comparison on them is false.   *)
(***************************************************************************)
EXTENDS Integers, Sequences, FiniteSets, TLC

VARIABLES
    wallet,         \* ARKlinko: wallet !== null
    balance,        \* ARKlinko: parseFloat(realTimeBalance || wallet.balance || '0')
    betAmount,      \* ARKlinko: the bet input, see BetChoices
    gameState,      \* ARKlinko: 'idle' | 'playing'
    triggerDrop,    \* ARKlinko: triggerDrop
    historyLen,     \* ARKlinko: gameHistory.length
    mutation,       \* playGameMutation: <<>> or <<[betAmount, multiplier]>> while pending
    mounted,        \* a PlinkoCanvas instance is in the tree (canvasRef.current is set)
    pendingEffects, \* ARKlinko has re-rendered and PlinkoCanvas's effects have not run yet
    ballsRef,       \* PlinkoCanvas: ballsRef.current
    pegsRef,        \* PlinkoCanvas: pegsRef.current
    ballIdRef,      \* PlinkoCanvas: ballIdRef.current
    animationRef,   \* PlinkoCanvas: animationRef.current (0: undefined)
    scheduled,      \* the browser's list of requested animation-frame callbacks (ids)
    rng,            \* the hidden state of Math.random()
    instance,       \* history: how many PlinkoCanvas instances were mounted
    landed,         \* history: the onBallLanded calls, in order
    plays,          \* history: how many play requests playGame accepted
    drops,          \* history: how many balls dropBall pushed
    tickLog,        \* history: the phases of the latest run of animate, in order
    server,         \* the server: MemStorage's user, games and seed, and the last exchange
    blockchain,     \* the page ARKlinkoBlockchain: its wallet, game and pending callbacks
    variant,        \* the 800x600 App: its wallet, bet, game and history
    handlers,       \* the server: the calls of the /api/plinko handler suspended at an await
    minimal         \* the minimal App: its wallet, error and call of connectWallet

vars == <<wallet, balance, betAmount, gameState, triggerDrop, historyLen, mutation,
          mounted, pendingEffects, ballsRef, pegsRef, ballIdRef, animationRef,
          scheduled, rng, instance, landed, plays, drops, tickLog, server, blockchain, variant,
          handlers, minimal>>

\* the state of the other pages of the repository
others == <<blockchain, variant, handlers, minimal>>

\* the state of the page ARKlinko and its PlinkoCanvas
arklinko == <<wallet, balance, betAmount, gameState, triggerDrop, historyLen, mutation,
              mounted, pendingEffects, ballsRef, pegsRef, ballIdRef, animationRef,
              scheduled, rng, instance, landed, plays, drops, tickLog>>

-----------------------------------------------------------------------------
(* Bounds of the model *)

MaxSeed == 2        \* Math.random() starts in one of MaxSeed + 1 hidden states
MaxGames == 2       \* play requests accepted in one behaviour
MaxMounts == 2      \* PlinkoCanvas instances mounted in one behaviour

-----------------------------------------------------------------------------
(* Arithmetic *)

Scale == 1000       \* units per pixel
NormScale == 10000  \* units per 1 of a unit vector

Abs(a) == IF a < 0 THEN -a ELSE a
Max(a, b) == IF a >= b THEN a ELSE b
Min(a, b) == IF a <= b THEN a ELSE b

\* a / b rounded toward zero (b > 0)
TDiv(a, b) == IF a >= 0 THEN a \div b ELSE -((-a) \div b)

RECURSIVE SqrtIter(_, _, _)
SqrtIter(n, lo, hi) ==
    IF lo >= hi THEN lo
    ELSE LET mid == (lo + hi + 1) \div 2
         IN  IF mid * mid <= n THEN SqrtIter(n, mid, hi) ELSE SqrtIter(n, lo, mid - 1)

\* Math.sqrt: the largest r with r * r <= n (n < 2^31)
Sqrt(n) == SqrtIter(n, 0, 46340)

-----------------------------------------------------------------------------
(* Game constants *)

BALL_RADIUS == 10
PEG_RADIUS == 5
GRAVITY == (3 * Scale) \div 10
BounceDamping(v) == TDiv(v * 7, 10)
HorizontalDamping(v) == TDiv(v * 98, 100)
MIN_BET == 10
MAX_BET == 500000

\* MULTIPLIERS, in hundredths
MULTIPLIERS == <<1000, 500, 400, 300, 200, -50, 150, 125, 0, -100,
                 0, 125, 150, -50, 200, 300, 400, 500, 1000>>

canvasWidth == 1400
canvasHeight == 900
boxHeight == 80
boxY == (canvasHeight - boxHeight) * Scale

\* ball.radius + peg.radius, in units
HitRange == (BALL_RADIUS + PEG_RADIUS) * Scale

-----------------------------------------------------------------------------
(* Math.random(): a generator with a hidden state.  The value returned is  *)
(* the state, in thousandths (0 <= Math.random() < 1); each call advances  *)
(* the state.                                                              *)

MathRandom(s) == s
NextRandom(s) == (s * 21 + 7) % 1000
Seeds == {(k * 333) % 1000 : k \in 0..MaxSeed}

-----------------------------------------------------------------------------
(* Initialize pegs *)

numRows == 20
playAreaTop == 100
playAreaBottom == canvasHeight - 100
playAreaLeft == 70
playAreaRight == canvasWidth - 70
playAreaWidth == playAreaRight - playAreaLeft
playAreaHeight == playAreaBottom - playAreaTop

PegsInRow(row) == 6 + ((row * 13) \div (numRows - 1))

PegY(row) == playAreaTop * Scale + TDiv(row * playAreaHeight * Scale, numRows - 1)

\* the x computed for column col of a row, before the play-area test
PegX(row, col) ==
    LET n == PegsInRow(row)
        base == IF n = 1 THEN (canvasWidth * Scale) \div 2
                ELSE playAreaLeft * Scale + TDiv(col * playAreaWidth * Scale, n - 1)
    IN  IF row % 2 = 1 THEN base + TDiv(playAreaWidth * Scale, 2 * (n - 1)) ELSE base

\* InPlayArea without the test: every computed peg is kept
InPlayAreaAlways(x) == TRUE

\* InPlayArea without the test against playAreaRight
InPlayAreaLeftOnly(x) == x >= playAreaLeft * Scale

InPlayArea(x) == x >= playAreaLeft * Scale /\ x <= playAreaRight * Scale

RowPegs(row) ==
    LET all == [c \in 1..PegsInRow(row) |->
                   [x |-> PegX(row, c - 1), y |-> PegY(row), radius |-> PEG_RADIUS]]
        Kept(p) == InPlayArea(p.x)
    IN  SelectSeq(all, Kept)

RECURSIVE PegsFrom(_)
PegsFrom(row) == IF row >= numRows THEN <<>> ELSE RowPegs(row) \o PegsFrom(row + 1)

\* the peg list the mount effect stores in pegsRef.current
GeneratePegs == PegsFrom(0)

-----------------------------------------------------------------------------
(* Balls.  A ball is a record of the fields of interface Ball, the flag    *)
(* nan, and four history fields that the program does not hold:            *)
(*   steps  how many times animate has stepped the ball                    *)
(*   age    how many animation frames have fired since the ball was pushed *)
(*   hits   how many times resolveBallPegCollision has changed the ball     *)
(*   dev    the largest | distance(ball, peg) - (ball.radius + peg.radius)|*)
(*          measured right after a resolution in the ball's latest step    *)

NewBall(x, vx, id) ==
    [x |-> x, y |-> 50 * Scale, vx |-> vx, vy |-> 0, radius |-> BALL_RADIUS,
     active |-> TRUE, id |-> id, nan |-> FALSE,
     steps |-> 0, age |-> 0, hits |-> 0, dev |-> 0]

\* dropBall's ball: two calls of Math.random(), r1 for x and r2 for vx
DropBallAt(r1, r2, id) ==
    NewBall((canvasWidth * Scale) \div 2 + TDiv((2 * r1 - 1000) * 20 * Scale, 2000),
            TDiv((2 * r2 - 1000) * 2 * Scale, 2000), id)

\* dx * dx + dy * dy < range * range, without leaving 32 bits
Within(dx, dy, range) ==
    /\ Abs(dx) < range
    /\ Abs(dy) < range
    /\ dx * dx + dy * dy < range * range

checkCollision(ball, peg) ==
    /\ ~ball.nan
    /\ Within(ball.x - peg.x, ball.y - peg.y, (ball.radius + peg.radius) * Scale)

\* distance(ball, peg) in units, for a ball within 2 * HitRange of the peg
Distance(ball, peg) ==
    LET dx == ball.x - peg.x
        dy == ball.y - peg.y
    IN  Sqrt(dx * dx + dy * dy)

\* (sx / |s|, sy / |s|) in 1/NormScale, d = |s|
Unit(sx, sy, d) == [x |-> TDiv(sx * NormScale, d), y |-> TDiv(sy * NormScale, d)]

\* (dx / distance, dy / distance) in 1/NormScale, for 0 < max(|dx|, |dy|) < HitRange.
\* The quotient does not depend on the length of (dx, dy), so the vector is first
\* stretched by k to a length near HitRange: the result is as exact for a short
\* (dx, dy) as for a long one, as a floating-point quotient is.
Stretched(dx, dy, k) == Unit(dx * k, dy * k, Sqrt(dx * k * dx * k + dy * k * dy * k))

Normal(dx, dy) == Stretched(dx, dy, HitRange \div Max(Abs(dx), Abs(dy)))

\* the ball with NaN in x, y, vx and vy
NaNBall(ball) ==
    [ball EXCEPT !.nan = TRUE, !.x = 0, !.y = 0, !.vx = 0, !.vy = 0, !.steps = 0, !.age = 0]

\* the ball moved to (x, y) with velocity (vx, vy) by a resolution against peg
Resolved(ball, peg, x, y, vx, vy) ==
    [ball EXCEPT !.x = x, !.y = y, !.vx = vx, !.vy = vy, !.hits = @ + 1,
                 !.dev = Max(@, Abs(Distance([x |-> x, y |-> y], peg)
                                    - (ball.radius + peg.radius) * Scale))]

\* Reflect with the random push on vy as well
ReflectPushesBoth(ball, peg, n, dot, r) ==
    Resolved(ball, peg,
             peg.x + TDiv(n.x * (ball.radius + peg.radius) * Scale, NormScale),
             peg.y + TDiv(n.y * (ball.radius + peg.radius) * Scale, NormScale),
             BounceDamping(ball.vx - TDiv(2 * dot * n.x, NormScale))
                 + TDiv((2 * r - 1000) * Scale, 4000),
             BounceDamping(ball.vy - TDiv(2 * dot * n.y, NormScale))
                 + TDiv((2 * r - 1000) * Scale, 4000))

\* the reflected velocity, damped, with the random push on vx (dot: the dot product)
Reflect(ball, peg, n, dot, r) ==
    Resolved(ball, peg,
             peg.x + TDiv(n.x * (ball.radius + peg.radius) * Scale, NormScale),
             peg.y + TDiv(n.y * (ball.radius + peg.radius) * Scale, NormScale),
             BounceDamping(ball.vx - TDiv(2 * dot * n.x, NormScale))
                 + TDiv((2 * r - 1000) * Scale, 4000),
             BounceDamping(ball.vy - TDiv(2 * dot * n.y, NormScale)))

\* the push out along the normal n and the reflection about it
Bounce(ball, peg, n, r) ==
    Reflect(ball, peg, n, TDiv(ball.vx * n.x + ball.vy * n.y, NormScale), r)

\* resolveBallPegCollision(ball, peg), r the value of its Math.random()
resolveBallPegCollision(ball, peg, r) ==
    IF ball.nan \/ ~Within(ball.x - peg.x, ball.y - peg.y,
                           (ball.radius + peg.radius) * Scale)
    THEN ball
    ELSE IF ball.x = peg.x /\ ball.y = peg.y
    THEN \* distance = 0: normalX = normalY = 0 / 0 = NaN
         [NaNBall(ball) EXCEPT !.hits = @ + 1]
    ELSE Bounce(ball, peg, Normal(ball.x - peg.x, ball.y - peg.y), r)

\* Integrate with the position moved by the old velocity (position first)
IntegratePositionFirst(ball) ==
    IF ball.nan THEN ball
    ELSE [ball EXCEPT !.x = ball.x + ball.vx,
                      !.y = ball.y + ball.vy,
                      !.vy = ball.vy + GRAVITY,
                      !.vx = HorizontalDamping(ball.vx)]

\* Apply physics: velocity first, then position
Integrate(ball) ==
    IF ball.nan THEN ball
    ELSE [ball EXCEPT !.vy = ball.vy + GRAVITY,
                      !.vx = HorizontalDamping(ball.vx),
                      !.x = ball.x + HorizontalDamping(ball.vx),
                      !.y = ball.y + ball.vy + GRAVITY]

\* the least element of a non-empty set of numbers
Least(S) == CHOOSE j \in S : \A k \in S : j <= k

\* the first peg from index i on that checkCollision finds the ball on (0: none)
FirstOf(hits) == IF hits = {} THEN 0 ELSE Least(hits)

NextHit(ball, pegs, i) == FirstOf({j \in i..Len(pegs) : checkCollision(ball, pegs[j])})

\* pegsRef.current.forEach from peg i on: the ball and the state of Math.random()
\* after it.  The pegs the ball is not on leave it alone, so the loop goes from hit
\* to hit: j is the next peg hit.
RECURSIVE PegLoop(_, _, _, _)
PegLoopAt(ball, rs, pegs, j) ==
    IF j = 0 THEN [ball |-> ball, rng |-> rs]
    ELSE PegLoop(resolveBallPegCollision(ball, pegs[j], MathRandom(rs)),
                 NextRandom(rs), pegs, j + 1)

PegLoop(ball, rs, pegs, i) == PegLoopAt(ball, rs, pegs, NextHit(ball, pegs, i))

\* SlotIndex with Math.round for Math.floor
SlotIndexRounded(x) ==
    (2 * x * Len(MULTIPLIERS) + canvasWidth * Scale) \div (2 * canvasWidth * Scale)

\* Math.floor(ball.x / boxWidth), boxWidth = canvas.width / MULTIPLIERS.length
SlotIndex(x) == (x * Len(MULTIPLIERS)) \div (canvasWidth * Scale)

\* ValidSlotIndex without Math.max and Math.min
ValidSlotIndexUnclamped(slotIndex) == slotIndex

ValidSlotIndex(slotIndex) == Max(0, Min(Len(MULTIPLIERS) - 1, slotIndex))

\* MULTIPLIERS[index] of a JavaScript array
MultiplierAt(index) ==
    IF index + 1 \in DOMAIN MULTIPLIERS THEN MULTIPLIERS[index + 1] ELSE "undefined"

ReachedBottom(ball) == ~ball.nan /\ ball.y > boxY - ball.radius * Scale

AtWall(ball) ==
    /\ ~ball.nan
    /\ \/ ball.x <= ball.radius * Scale
       \/ ball.x >= (canvasWidth - ball.radius) * Scale

\* WallBounce without the clamp of x
WallBounceUnclamped(ball) == [ball EXCEPT !.vx = TDiv(ball.vx * (-7), 10)]

WallBounce(ball) ==
    [ball EXCEPT !.vx = TDiv(ball.vx * (-7), 10),
                 !.x = Max(ball.radius * Scale,
                           Min((canvasWidth - ball.radius) * Scale, ball.x))]

\* Landing with return true: the ball stays in ballsRef
LandingKeepsBall(ball, rs, validSlotIndex) ==
    [ball |-> ball, keep |-> TRUE,
     calls |-> <<[id |-> ball.id, x |-> ball.x, slot |-> validSlotIndex,
                  multiplier |-> MultiplierAt(validSlotIndex)]>>,
     rng |-> rs,
     log |-> <<"integrate", "pegs", "landing", "onBallLanded">>]

\* Check if ball reached bottom, taken: the onBallLanded call, return false
Landing(ball, rs, validSlotIndex) ==
    [ball |-> ball, keep |-> FALSE,
     calls |-> <<[id |-> ball.id, x |-> ball.x, slot |-> validSlotIndex,
                  multiplier |-> MultiplierAt(validSlotIndex)]>>,
     rng |-> rs,
     log |-> <<"integrate", "pegs", "landing", "onBallLanded">>]

LandBall(ball, rs) == Landing(ball, rs, ValidSlotIndex(SlotIndex(ball.x)))

\* Wall bouncing and Draw ball, return true
KeepBall(ball, rs) ==
    [ball |-> IF AtWall(ball) THEN WallBounce(ball) ELSE ball,
     keep |-> TRUE, calls |-> <<>>, rng |-> rs,
     log |-> <<"integrate", "pegs", "landing", "wall", "drawBall">>]

\* the rest of the filter callback, res the ball and Math.random() after the pegs
AfterPegs(res) ==
    IF ReachedBottom(res.ball) THEN LandBall(res.ball, res.rng)
    ELSE KeepBall(res.ball, res.rng)

\* the ball integrated, with its history fields for this step
Stepped(ball) ==
    [Integrate(ball) EXCEPT !.dev = 0, !.steps = IF ball.nan THEN @ ELSE @ + 1]

\* The callback of ballsRef.current.filter for one ball: the ball after it, whether
\* the filter keeps it, the onBallLanded call it made (if any), the state of
\* Math.random() after it and the phases it went through.
StepBall(ball, rs, pegs) ==
    IF ~ball.active
    THEN [ball |-> ball, keep |-> FALSE, calls |-> <<>>, rng |-> rs, log |-> <<>>]
    ELSE AfterPegs(PegLoop(Stepped(ball), rs, pegs, 1))

\* Joined with the filter left at the first landing: the balls after it are lost
JoinedUntilLanding(one, rest) ==
    [balls |-> IF one.keep THEN <<one.ball>> \o rest.balls ELSE <<>>,
     calls |-> one.calls \o rest.calls,
     rng |-> rest.rng,
     log |-> one.log \o rest.log]

\* the filter's result for a ball (one) put before the result for the balls after it
Joined(one, rest) ==
    [balls |-> (IF one.keep THEN <<one.ball>> ELSE <<>>) \o rest.balls,
     calls |-> one.calls \o rest.calls,
     rng |-> rest.rng,
     log |-> one.log \o rest.log]

\* ballsRef.current.filter(...) from ball i on
RECURSIVE FilterBalls(_, _, _, _)
FilterFrom(one, balls, pegs, i) == Joined(one, FilterBalls(balls, one.rng, pegs, i + 1))

FilterBalls(balls, rs, pegs, i) ==
    IF i > Len(balls)
    THEN [balls |-> <<>>, calls |-> <<>>, rng |-> rs, log |-> <<>>]
    ELSE FilterFrom(StepBall(balls[i], rs, pegs), balls, pegs, i)

-----------------------------------------------------------------------------
(* The animation loop *)

\* requestAnimationFrame's return value: an id no scheduled callback has and no
\* reference holds (ids are only ever compared, so the least such id stands for it)
FreshId(used) ==
    CHOOSE i \in 1..(Cardinality(used) + 1) :
        i \notin used /\ \A j \in 1..(i - 1) : j \in used

\* Animated with the pegs and the boxes drawn after the balls are gone through
AnimatedBallsFirst(st, f, id) ==
    [balls |-> f.balls, rng |-> f.rng, ref |-> id, sched |-> st.sched \cup {id},
     calls |-> st.calls \o f.calls,
     log |-> f.log \o <<"drawPegs", "drawSlots">> \o <<"requestFrame">>]

\* what animate leaves, f the result of the filter and id the new frame's id
Animated(st, f, id) ==
    [balls |-> f.balls, rng |-> f.rng, ref |-> id, sched |-> st.sched \cup {id},
     calls |-> st.calls \o f.calls,
     log |-> <<"drawPegs", "drawSlots">> \o f.log \o <<"requestFrame">>]

\* One run of animate on st = [balls, rng, ref, sched, calls, log]: ballsRef.current,
\* the state of Math.random(), animationRef.current, the callbacks requested for the
\* next frame, the onBallLanded calls made and the phases gone through.
animate(st, canvas, pegs) ==
    IF ~canvas THEN [st EXCEPT !.log = <<>>]
    ELSE Animated(st, FilterBalls(st.balls, st.rng, pegs, 1),
                  FreshId(st.sched \cup {st.ref}))

\* the browser runs the k callbacks requested for this frame, one after the other
RECURSIVE RunCallbacks(_, _, _, _)
RunCallbacks(k, st, canvas, pegs) ==
    IF k = 0 THEN st ELSE RunCallbacks(k - 1, animate(st, canvas, pegs), canvas, pegs)

\* an effect of [animate] without a cleanup
CancelFrameForgotten(sched, ref) == sched

\* the effect of [animate]: its cleanup
CancelFrame(sched, ref) == IF ref # 0 THEN sched \ {ref} ELSE sched

\* the history fields of the balls after a frame
Aged(balls) == [i \in DOMAIN balls |->
                   IF balls[i].nan THEN balls[i] ELSE [balls[i] EXCEPT !.age = @ + 1]]

\* handleBallLanded, for each onBallLanded call of a frame: the mutation it starts
parseFloat(input) == IF input = <<>> THEN "NaN" ELSE input[1]

MutationAfter(current, input, calls) ==
    IF calls = <<>> THEN current
    ELSE <<[betAmount |-> parseFloat(input), multiplier |-> calls[Len(calls)].multiplier]>>

\* the onBallLanded calls of a frame, as the history keeps them
LandedCalls(calls, inst) ==
    [i \in DOMAIN calls |->
        [inst |-> inst, id |-> calls[i].id, x |-> calls[i].x, slot |-> calls[i].slot,
         multiplier |-> calls[i].multiplier]]

\* the state after the callbacks of a frame have left st
FrameResult(st) ==
    /\ ballsRef' = Aged(st.balls)
    /\ rng' = st.rng
    /\ animationRef' = st.ref
    /\ scheduled' = st.sched
    /\ tickLog' = st.log
    /\ landed' = landed \o LandedCalls(st.calls, instance)
    /\ mutation' = MutationAfter(mutation, betAmount, st.calls)
    \* the mutation's new state renders ARKlinko
    /\ pendingEffects' = (pendingEffects \/ (mounted /\ st.calls # <<>>))

\* An animation frame: the browser runs every callback requested since the last one.
Frame ==
    /\ scheduled # {}
    /\ FrameResult(RunCallbacks(Cardinality(scheduled),
                                [balls |-> ballsRef, rng |-> rng, ref |-> animationRef,
                                 sched |-> {}, calls |-> <<>>, log |-> <<>>],
                                mounted, pegsRef))
    /\ UNCHANGED server
    /\ UNCHANGED others
    /\ UNCHANGED <<wallet, balance, betAmount, gameState, triggerDrop, historyLen,
                   mounted, pegsRef, ballIdRef, instance, plays, drops>>

\* DropEffect without the onTriggerComplete() call
DropEffectKeepsTrigger(st, canvas) ==
    IF ~st.trigger THEN st
    ELSE IF ~canvas THEN st
    ELSE [balls |-> Append(st.balls,
                           DropBallAt(MathRandom(st.rng),
                                      MathRandom(NextRandom(st.rng)), st.id)),
          id |-> st.id + 1,
          rng |-> NextRandom(NextRandom(st.rng)),
          trigger |-> TRUE,
          drops |-> st.drops + 1]

\* The effect of [triggerDrop, onTriggerComplete] on st = [balls, id, rng, trigger,
\* drops]: dropBall() and onTriggerComplete() when triggerDrop is set.
DropEffect(st, canvas) ==
    IF ~st.trigger THEN st
    ELSE IF ~canvas THEN [st EXCEPT !.trigger = FALSE]
    ELSE [balls |-> Append(st.balls,
                           DropBallAt(MathRandom(st.rng),
                                      MathRandom(NextRandom(st.rng)), st.id)),
          id |-> st.id + 1,
          rng |-> NextRandom(NextRandom(st.rng)),
          trigger |-> FALSE,
          drops |-> st.drops + 1]

\* the refs and the state after the effects, d the result of the drop effect and
\* sched the callbacks left by the cleanup
EffectsResult(d, sched, id) ==
    /\ ballsRef' = d.balls
    /\ ballIdRef' = d.id
    /\ rng' = d.rng
    /\ drops' = d.drops
    /\ triggerDrop' = d.trigger
    /\ animationRef' = id
    /\ scheduled' = sched \cup {id}
    \* setTriggerDrop(false) renders ARKlinko once more
    /\ pendingEffects' = triggerDrop

\* the cleanup of [animate] and then its body, which requests a frame
Rescheduled(d, sched, ref) == EffectsResult(d, sched, FreshId(sched \cup {ref}))

\* The effects of PlinkoCanvas after ARKlinko has re-rendered: handleBallLanded and
\* handleTriggerComplete are new functions at every render, so both effects run
\* again: the cleanup of [animate], then the drop effect, then [animate]'s body.
RunEffects ==
    /\ mounted
    /\ pendingEffects
    /\ Rescheduled(DropEffect([balls |-> ballsRef, id |-> ballIdRef, rng |-> rng,
                               trigger |-> triggerDrop, drops |-> drops], TRUE),
                   CancelFrame(scheduled, animationRef), animationRef)
    /\ UNCHANGED server
    /\ UNCHANGED others
    /\ UNCHANGED <<wallet, balance, betAmount, gameState, historyLen, mutation, mounted,
                   pegsRef, instance, landed, plays, tickLog>>

-----------------------------------------------------------------------------
(* The page *)

BalanceChoices == {100000, 500000}
BetChoices == {<<>>, <<-10>>, <<0>>, <<5>>, <<10>>, <<500000>>, <<500001>>}

\* Connect with a peg generator that takes a random number for the first peg
ConnectRandomPeg ==
    /\ ~wallet
    /\ instance < MaxMounts
    /\ wallet' = TRUE
    /\ \E b \in BalanceChoices : balance' = b
    /\ mounted' = TRUE
    /\ instance' = instance + 1
    /\ pegsRef' = [GeneratePegs EXCEPT ![1].x = @ + MathRandom(rng)]
    /\ Rescheduled(DropEffect([balls |-> <<>>, id |-> 0, rng |-> rng,
                               trigger |-> triggerDrop, drops |-> drops], TRUE),
                   scheduled, 0)
    /\ tickLog' = <<>>
    /\ UNCHANGED server
    /\ UNCHANGED others
    /\ UNCHANGED <<betAmount, gameState, historyLen, mutation, landed, plays>>

\* handleWalletConnected: the wallet is set and PlinkoCanvas is mounted, a new
\* instance with new refs, whose three effects run
Connect ==
    /\ ~wallet
    /\ instance < MaxMounts
    /\ wallet' = TRUE
    /\ \E b \in BalanceChoices : balance' = b
    /\ mounted' = TRUE
    /\ instance' = instance + 1
    /\ pegsRef' = GeneratePegs
    /\ Rescheduled(DropEffect([balls |-> <<>>, id |-> 0, rng |-> rng,
                               trigger |-> triggerDrop, drops |-> drops], TRUE),
                   scheduled, 0)
    /\ tickLog' = <<>>
    /\ UNCHANGED server
    /\ UNCHANGED others
    /\ UNCHANGED <<betAmount, gameState, historyLen, mutation, landed, plays>>

\* handleDisconnect: the wallet is cleared and PlinkoCanvas is unmounted, which
\* runs the cleanup of [animate]
Disconnect ==
    /\ wallet
    /\ ~pendingEffects
    /\ wallet' = FALSE
    /\ balance' = 0
    /\ betAmount' = <<>>
    /\ historyLen' = 0
    /\ mounted' = FALSE
    /\ scheduled' = CancelFrame(scheduled, animationRef)
    /\ UNCHANGED server
    /\ UNCHANGED others
    /\ UNCHANGED <<gameState, triggerDrop, mutation, pendingEffects, ballsRef, pegsRef,
                   ballIdRef, animationRef, rng, instance, landed, plays, drops, tickLog>>

\* the bet input's onChange (the input is disabled while playing)
SetBet ==
    /\ wallet
    /\ gameState # "playing"
    /\ ~pendingEffects
    /\ \E v \in BetChoices : v # betAmount /\ betAmount' = v
    /\ pendingEffects' = mounted
    /\ UNCHANGED server
    /\ UNCHANGED others
    /\ UNCHANGED <<wallet, balance, gameState, triggerDrop, historyLen, mutation, mounted,
                   ballsRef, pegsRef, ballIdRef, animationRef, scheduled, rng, instance,
                   landed, plays, drops, tickLog>>

\* BetAccepted without the test against the balance
BetAcceptedAnyBalance(input, currentBalance) ==
    /\ input # <<>>
    /\ parseFloat(input) # 0
    /\ ~(parseFloat(input) < MIN_BET)
    /\ ~(parseFloat(input) > MAX_BET)

\* playGame's tests: the bet is a number within the limits and within the balance
BetAccepted(input, currentBalance) ==
    /\ input # <<>>
    /\ parseFloat(input) # 0
    /\ ~(parseFloat(input) < MIN_BET)
    /\ ~(parseFloat(input) > MAX_BET)
    /\ ~(parseFloat(input) > currentBalance)

\* the DROP BALL button's onClick (disabled while playing, without a bet, or while
\* the mutation is pending)
PlayGame ==
    /\ wallet
    /\ gameState # "playing"
    /\ betAmount # <<>>
    /\ mutation = <<>>
    /\ ~pendingEffects
    /\ plays < MaxGames
    /\ IF BetAccepted(betAmount, balance)
       THEN /\ gameState' = "playing"
            /\ triggerDrop' = TRUE
            /\ plays' = plays + 1
            /\ pendingEffects' = mounted
       ELSE UNCHANGED <<gameState, triggerDrop, plays, pendingEffects>>
    /\ UNCHANGED server
    /\ UNCHANGED others
    /\ UNCHANGED <<wallet, balance, betAmount, historyLen, mutation, mounted, ballsRef,
                   pegsRef, ballIdRef, animationRef, scheduled, rng, instance, landed,
                   drops, tickLog>>

\* playGameMutation settles: onSuccess (ok) or onError
MutationSettle ==
    /\ mutation # <<>>
    /\ ~pendingEffects
    /\ \E ok \in BOOLEAN :
          historyLen' = IF ok /\ wallet THEN Min(historyLen + 1, 10) ELSE historyLen
    /\ mutation' = <<>>
    /\ gameState' = "idle"
    /\ pendingEffects' = mounted
    /\ UNCHANGED server
    /\ UNCHANGED others
    /\ UNCHANGED <<wallet, balance, betAmount, triggerDrop, mounted, ballsRef, pegsRef,
                   ballIdRef, animationRef, scheduled, rng, instance, landed, plays,
                   drops, tickLog>>

-----------------------------------------------------------------------------
(* The server: POST /api/plinko over MemStorage, the storage the server always   *)
(* uses.  Every storage call resolves at once, so a request runs from its first  *)
(* line to its response before the next request is read.  Amounts are in units   *)
(* of 1e-8 ARK, the eight decimals the server keeps; multipliers in hundredths.  *)

MaxServerGames == 2

AmountScale == 100000000

\* a double: NaN, or a number of units
NaN == [nan |-> TRUE, v |-> 0]
Num(n) == [nan |-> FALSE, v |-> n]

\* parseFloat on a value of the request or of the storage: <<>> is a value that
\* does not start with a number ("abc", undefined, "NaN"), <<n>> a numeric one
ParsedFloat(text) == IF text = <<>> THEN NaN ELSE Num(text[1])

\* a > b on doubles: false as soon as one side is NaN
Greater(a, b) == ~a.nan /\ ~b.nan /\ a.v > b.v

Plus(a, b) == IF a.nan \/ b.nan THEN NaN ELSE Num(a.v + b.v)

Minus(a, b) == IF a.nan \/ b.nan THEN NaN ELSE Num(a.v - b.v)

Sign(n) == IF n < 0 THEN -1 ELSE 1

\* bet * multiplier, rounded to the eight decimals toFixed(8) keeps (half away
\* from zero); the product is taken in two parts to stay within 32 bits
Times(bet, multiplier) ==
    IF bet.nan THEN NaN
    ELSE Num(Sign(bet.v) * Sign(multiplier)
             * ((Abs(bet.v) \div 100) * Abs(multiplier)
                + ((Abs(bet.v) % 100) * Abs(multiplier) + 50) \div 100))

\* x.toFixed(8): the text of a double
toFixed(x) == IF x.nan THEN <<>> ELSE <<x.v>>

validMultipliers == {1000, 500, 400, 300, 200, 150, -50, 125, 0, -100}

\* the payout of a game, as text
Payout(bet, multiplier) ==
    IF multiplier = -100 THEN <<0>>
    ELSE IF multiplier = -50 THEN toFixed(Times(bet, 50))
    ELSE IF multiplier = 0 THEN toFixed(bet)
    ELSE toFixed(Times(bet, multiplier))

\* MemStorage after initializeDemoData: demo_player with balance "10.0", no game,
\* seed 1 active with nonce 1; no request answered yet
ServerStart ==
    [balance |-> <<10 * AmountScale>>,
     games |-> <<>>,
     seed |-> [nonce |-> 1, isActive |-> TRUE],
     request |-> <<>>,
     status |-> 0]

\* res.status(status).json(...) to the request with this body
Respond(s, body, status) == [s EXCEPT !.request = <<body>>, !.status = status]

\* createGame, updateUserBalance, updateSeed and the response of an accepted play
Played(s, body, userBalance, bet, payout) ==
    [balance |-> toFixed(Plus(Minus(userBalance, bet), ParsedFloat(payout))),
     games |-> Append(s.games, [betAmount |-> body.betAmount,
                                multiplier |-> body.multiplier,
                                payout |-> payout,
                                nonce |-> s.seed.nonce]),
     seed |-> [s.seed EXCEPT !.nonce = @ + 1],
     request |-> <<body>>,
     status |-> 200]

\* the handler of POST /api/plinko
Plinko(s, body, userBalance, bet) ==
    IF Greater(bet, userBalance) THEN Respond(s, body, 400)
    ELSE IF Greater(bet, Num(5 * AmountScale)) THEN Respond(s, body, 400)
    ELSE IF body.multiplier \notin validMultipliers THEN Respond(s, body, 400)
    ELSE IF ~s.seed.isActive THEN Respond(s, body, 400)
    ELSE Played(s, body, userBalance, bet, Payout(bet, body.multiplier))

\* the bets a request carries: non-numeric, -0.0001, 0, 0.00005, 0.0001, 5 and
\* 5.00001 ARK
BodyBets == {<<>>, <<-10000>>, <<0>>, <<5000>>, <<10000>>, <<5 * AmountScale>>,
             <<5 * AmountScale + 1000>>}

\* the multipliers a request carries: -1, -0.5, 0, 1.25 and 7, which is no
\* multiplier of the game
BodyMultipliers == {-100, -50, 0, 125, 700}

PlinkoRequest ==
    /\ Len(server.games) < MaxServerGames
    /\ \E bet \in BodyBets, multiplier \in BodyMultipliers :
          server' = Plinko(server, [betAmount |-> bet, multiplier |-> multiplier],
                           ParsedFloat(server.balance), ParsedFloat(bet))
    /\ UNCHANGED <<wallet, balance, betAmount, gameState, triggerDrop, historyLen,
                   mutation, mounted, pendingEffects, ballsRef, pegsRef, ballIdRef,
                   animationRef, scheduled, rng, instance, landed, plays, drops,
                   tickLog>>
    /\ UNCHANGED others

-----------------------------------------------------------------------------
(* The page ARKlinkoBlockchain.  A callback sees the wallet of the render that   *)
(* created it, so every pending callback carries the wallet it captured.  The    *)
(* flight of the ball is PlinkoCanvas's and is kept as one flag here.            *)

\* getArkBalance: the balances the network reports
ArkBalances == BalanceChoices

NoWallet == <<>>

BlockchainStart ==
    [wallet |-> NoWallet,
     gameState |-> "idle",
     inFlight |-> FALSE,
     landing |-> <<>>,
     timers |-> <<>>,
     connects |-> 0,
     games |-> 0]

\* a sequence without its element i
Without(seq, i) == SubSeq(seq, 1, i - 1) \o SubSeq(seq, i + 1, Len(seq))

\* handleBalanceUpdate as created by a render whose wallet is captured
handleBalanceUpdate(captured, current, newBalance) ==
    IF captured # NoWallet THEN <<[captured[1] EXCEPT !.balance = newBalance]>>
    ELSE current

\* the end of handleBallLanded: the 3-second timer is set unless the try block
\* threw, and gameState is set to 'idle'
LandedEnd(b, captured, ok) ==
    [b EXCEPT !.timers = IF ok THEN Append(@, [wallet |-> captured, fetching |-> FALSE])
                         ELSE @,
              !.landing = <<>>,
              !.gameState = "idle"]

\* ArkConnect.connectWallet reaches onWalletConnected
BlockchainConnect ==
    /\ blockchain.wallet = NoWallet
    /\ blockchain.connects < MaxMounts
    /\ \E b \in ArkBalances :
          blockchain' = [blockchain EXCEPT !.wallet = <<[address |-> "ark", balance |-> b]>>,
                                           !.connects = @ + 1]
    /\ UNCHANGED <<arklinko, server, handlers, variant, minimal>>

\* handleDisconnect; PlinkoCanvas is unmounted with its ball
BlockchainDisconnect ==
    /\ blockchain.wallet # NoWallet
    /\ blockchain' = [blockchain EXCEPT !.wallet = NoWallet, !.inFlight = FALSE]
    /\ UNCHANGED <<arklinko, server, handlers, variant, minimal>>

\* playGame on a valid bet, and the drop it triggers
BlockchainPlayGame ==
    /\ blockchain.wallet # NoWallet
    /\ blockchain.gameState = "idle"
    /\ blockchain.games < MaxGames
    /\ blockchain' = [blockchain EXCEPT !.gameState = "playing", !.inFlight = TRUE,
                                        !.games = @ + 1]
    /\ UNCHANGED <<arklinko, server, handlers, variant, minimal>>

\* handleBallLanded up to its first await (a transaction is sent), or to its end
\* (multiplier 0: nothing is awaited)
BlockchainBallLanded ==
    /\ blockchain.inFlight
    /\ blockchain.landing = <<>>
    /\ \E awaits \in BOOLEAN :
          blockchain' =
              IF awaits
              THEN [blockchain EXCEPT !.inFlight = FALSE,
                                      !.landing = <<[wallet |-> blockchain.wallet]>>]
              ELSE LandedEnd([blockchain EXCEPT !.inFlight = FALSE], blockchain.wallet, TRUE)
    /\ UNCHANGED <<arklinko, server, handlers, variant, minimal>>

\* handleBallLanded after its await: the transaction resolved (ok) or threw
BlockchainLandedResume ==
    /\ blockchain.landing # <<>>
    /\ \E ok \in BOOLEAN :
          blockchain' = LandedEnd(blockchain, blockchain.landing[1].wallet, ok)
    /\ UNCHANGED <<arklinko, server, handlers, variant, minimal>>

\* the 3-second timer fires: if (wallet) await getArkBalance(wallet.address)
BlockchainTimerFires ==
    /\ \E i \in DOMAIN blockchain.timers :
          /\ ~blockchain.timers[i].fetching
          /\ blockchain' =
                IF blockchain.timers[i].wallet # NoWallet
                THEN [blockchain EXCEPT !.timers[i].fetching = TRUE]
                ELSE [blockchain EXCEPT !.timers = Without(@, i)]
    /\ UNCHANGED <<arklinko, server, handlers, variant, minimal>>

\* getArkBalance resolves in the timer's callback: handleBalanceUpdate(newBalance)
BlockchainBalanceFetched ==
    /\ \E i \in DOMAIN blockchain.timers, newBalance \in ArkBalances :
          /\ blockchain.timers[i].fetching
          /\ blockchain' =
                [blockchain EXCEPT
                    !.wallet = handleBalanceUpdate(blockchain.timers[i].wallet, @, newBalance),
                    !.timers = Without(@, i)]
    /\ UNCHANGED <<arklinko, server, handlers, variant, minimal>>

-----------------------------------------------------------------------------
(* The 800x600 App.  Its PlinkoCanvas starts the animation loop in an effect     *)
(* that runs once per mount, so the loop calls the onBallLanded the canvas was   *)
(* given when it was mounted.  Bets are in hundredths of an ARK.                 *)

VariantBets == {<<>>, <<0>>, <<1>>, <<100>>, <<500>>, <<501>>}

VariantMultipliers == {0, 2}

VariantStart ==
    [wallet |-> FALSE,
     betAmount |-> <<100>>,
     betAmountRef |-> <<100>>,
     gameState |-> "idle",
     inFlight |-> FALSE,
     dropped |-> NaN,
     nextGameId |-> 1,
     landedId |-> 1,
     gameHistory |-> <<>>,
     games |-> 0]

\* handlePlay's test of the bet: not NaN, and 0.01 <= bet <= 5
PlayableBet(bet) == ~bet.nan /\ bet.v >= 1 /\ bet.v <= 500

\* [entry, ...prev.slice(0, 9)]
Prepended(entry, prev) == <<entry>> \o SubSeq(prev, 1, Min(Len(prev), 9))

\* loadWalletData or connectWallet reaches setWallet: the canvas is mounted and
\* its loop keeps the handleBallLanded of this render, whose id is nextGameId
VariantConnect ==
    /\ ~variant.wallet
    /\ variant' = [variant EXCEPT !.wallet = TRUE, !.landedId = variant.nextGameId]
    /\ UNCHANGED <<arklinko, server, handlers, blockchain, minimal>>

\* the 'disconnected' event: setWallet(null); the canvas is unmounted with its ball
VariantDisconnect ==
    /\ variant.wallet
    /\ variant' = [variant EXCEPT !.wallet = FALSE, !.inFlight = FALSE]
    /\ UNCHANGED <<arklinko, server, handlers, blockchain, minimal>>

\* handleBetAmountChange: the input is enabled in every gameState
VariantSetBet ==
    /\ variant.wallet
    /\ \E v \in VariantBets :
          /\ v # variant.betAmount
          /\ variant' = [variant EXCEPT !.betAmount = v, !.betAmountRef = v]
    /\ UNCHANGED <<arklinko, server, handlers, blockchain, minimal>>

\* handlePlay (the button is enabled when canPlay), and the drop it triggers
VariantPlay ==
    /\ variant.wallet
    /\ variant.gameState = "idle"
    /\ variant.games < MaxGames
    /\ PlayableBet(ParsedFloat(variant.betAmount))
    /\ variant' = [variant EXCEPT !.gameState = "playing", !.inFlight = TRUE,
                                  !.dropped = ParsedFloat(variant.betAmount),
                                  !.games = @ + 1]
    /\ UNCHANGED <<arklinko, server, handlers, blockchain, minimal>>

\* updatePhysics lands the ball: the canvas's onBallLanded(multiplier)
VariantBallLanded ==
    /\ variant.inFlight
    /\ \E multiplier \in VariantMultipliers :
          variant' = [variant EXCEPT
              !.inFlight = FALSE,
              !.gameState = "finished",
              !.gameHistory = Prepended([id |-> variant.landedId,
                                         bet |-> ParsedFloat(variant.betAmountRef),
                                         multiplier |-> multiplier,
                                         dropped |-> variant.dropped], @),
              !.nextGameId = @ + 1]
    /\ UNCHANGED <<arklinko, server, handlers, blockchain, minimal>>

\* handleNewGame
VariantNewGame ==
    /\ variant.wallet
    /\ variant.gameState = "finished"
    /\ variant' = [variant EXCEPT !.gameState = "idle"]
    /\ UNCHANGED <<arklinko, server, handlers, blockchain, minimal>>

-----------------------------------------------------------------------------
(* POST /api/plinko call by call.  The handler is an async function: it gives    *)
(* up control at each await, and another call of the handler that has been       *)
(* started may run then.  A storage method does its work when it is called; the  *)
(* user and the seed it returns are the objects the storage holds.  handlers     *)
(* keeps the calls that are suspended, each with its locals and the await it is  *)
(* at.                                                                           *)

\* the bets and multipliers of the concurrent requests: 0.0001 and 5 ARK, on -1
\* and 1.25
RaceBets == {<<10000>>, <<5 * AmountScale>>}

RaceMultipliers == {-100, 125}

\* the handler is called: up to await storage.getUserByUsername
PlinkoCalled ==
    /\ Len(server.games) + Len(handlers) < MaxServerGames
    /\ \E bet \in RaceBets, multiplier \in RaceMultipliers :
          handlers' = Append(handlers, [body |-> [betAmount |-> bet, multiplier |-> multiplier],
                                        at |-> "getUserByUsername",
                                        userBalance |-> NaN, bet |-> NaN, payout |-> <<>>])
    /\ UNCHANGED <<arklinko, server, blockchain, variant, minimal>>

\* the call h with its locals set and suspended at the next await
Suspended(h, userBalance, bet, payout, at) ==
    [h EXCEPT !.userBalance = userBalance, !.bet = bet, !.payout = payout, !.at = at]

\* from the user to await storage.getActiveSeed, or to a response with status 400
ValidatedCall(s, h, userBalance, bet) ==
    IF \/ Greater(bet, userBalance)
       \/ Greater(bet, Num(5 * AmountScale))
       \/ h.body.multiplier \notin validMultipliers
    THEN [server |-> Respond(s, h.body, 400), call |-> <<>>]
    ELSE [server |-> s, call |-> <<Suspended(h, userBalance, bet, <<>>, "getActiveSeed")>>]

\* from the seed to await storage.createGame, which records the game
RecordedCall(s, h, payout) ==
    [server |-> [s EXCEPT !.games = Append(@, [betAmount |-> h.body.betAmount,
                                               multiplier |-> h.body.multiplier,
                                               payout |-> payout,
                                               nonce |-> s.seed.nonce])],
     call |-> <<Suspended(h, h.userBalance, h.bet, payout, "createGame")>>]

\* from the game to await storage.updateUserBalance, which stores newBalance
PaidCall(s, h) ==
    [server |-> [s EXCEPT !.balance =
                    toFixed(Plus(Minus(h.userBalance, h.bet), ParsedFloat(h.payout)))],
     call |-> <<[h EXCEPT !.at = "updateUserBalance"]>>]

\* from the balance to await storage.updateSeed, which stores seed.nonce + 1
CountedCall(s, h) ==
    [server |-> [s EXCEPT !.seed.nonce = @ + 1],
     call |-> <<[h EXCEPT !.at = "updateSeed"]>>]

\* the call h resumed after the await it is at, up to its next await or response
Resumed(s, h) ==
    IF h.at = "getUserByUsername"
    THEN ValidatedCall(s, h, ParsedFloat(s.balance), ParsedFloat(h.body.betAmount))
    ELSE IF h.at = "getActiveSeed"
    THEN IF ~s.seed.isActive THEN [server |-> Respond(s, h.body, 400), call |-> <<>>]
         ELSE RecordedCall(s, h, Payout(h.bet, h.body.multiplier))
    ELSE IF h.at = "createGame" THEN PaidCall(s, h)
    ELSE IF h.at = "updateUserBalance" THEN CountedCall(s, h)
    ELSE [server |-> Respond(s, h.body, 200), call |-> <<>>]

\* a suspended call of the handler is resumed
PlinkoResumed ==
    /\ \E i \in DOMAIN handlers :
          /\ server' = Resumed(server, handlers[i]).server
          /\ handlers' = SubSeq(handlers, 1, i - 1) \o Resumed(server, handlers[i]).call
                             \o SubSeq(handlers, i + 1, Len(handlers))
    /\ UNCHANGED <<arklinko, blockchain, variant, minimal>>

-----------------------------------------------------------------------------
(* The minimal App and its connectWallet.  The call is suspended at             *)
(* arkProvider.connect() or at the one-second timer; connects counts the calls   *)
(* of arkProvider.connect() the call has made.                                   *)

MaxAttempts == 10

MinimalStart ==
    [wallet |-> FALSE,
     isConnecting |-> FALSE,
     error |-> "null",
     call |-> <<>>,
     connects |-> 0]

\* the end of connectWallet, with isConnecting left true
FinishedStillConnecting(m, walletSet, error) ==
    [m EXCEPT !.wallet = @ \/ walletSet, !.error = error, !.call = <<>>]

\* the end of connectWallet: the wallet or the error is set as the call has
\* decided, and finally setIsConnecting(false)
Finished(m, walletSet, error) ==
    [m EXCEPT !.wallet = @ \/ walletSet, !.error = error, !.call = <<>>,
              !.isConnecting = FALSE]

\* the loop from its test: while (attempts < 10), with the provider there or not
Iteration(m, attempts, provider) ==
    IF attempts >= MaxAttempts THEN Finished(m, FALSE, "not found")
    ELSE IF provider
    THEN [m EXCEPT !.call = <<[attempts |-> attempts, at |-> "connect"]>>,
                   !.connects = @ + 1]
    ELSE [m EXCEPT !.call = <<[attempts |-> attempts, at |-> "timer"]>>]

\* the button Connect ARK Wallet, shown without a wallet and enabled when no call
\* is running
ConnectWallet ==
    /\ ~minimal.wallet
    /\ ~minimal.isConnecting
    /\ \E provider \in BOOLEAN :
          minimal' = Iteration([minimal EXCEPT !.isConnecting = TRUE, !.error = "null",
                                               !.connects = 0],
                               0, provider)
    /\ UNCHANGED <<arklinko, server, handlers, blockchain, variant>>

\* arkProvider.connect() settles: with an account that has an address, with
\* nothing of use, or by throwing
ConnectSettled ==
    /\ minimal.call # <<>>
    /\ minimal.call[1].at = "connect"
    /\ \E outcome \in {"account", "nothing", "throws"} :
          minimal' =
              IF outcome = "account" THEN Finished(minimal, TRUE, minimal.error)
              ELSE IF outcome = "throws" THEN Finished(minimal, FALSE, "failed")
              ELSE [minimal EXCEPT !.call[1].at = "timer"]
    /\ UNCHANGED <<arklinko, server, handlers, blockchain, variant>>

\* the one-second timer fires: attempts++ and the loop's test
TimerFired ==
    /\ minimal.call # <<>>
    /\ minimal.call[1].at = "timer"
    /\ \E provider \in BOOLEAN :
          minimal' = Iteration(minimal, minimal.call[1].attempts + 1, provider)
    /\ UNCHANGED <<arklinko, server, handlers, blockchain, variant>>

\* the button Disconnect of the game screen: setWallet(null)
MinimalDisconnect ==
    /\ minimal.wallet
    /\ minimal' = [minimal EXCEPT !.wallet = FALSE]
    /\ UNCHANGED <<arklinko, server, handlers, blockchain, variant>>

Init ==
    /\ wallet = FALSE
    /\ balance = 0
    /\ betAmount = <<>>
    /\ gameState = "idle"
    /\ triggerDrop = FALSE
    /\ historyLen = 0
    /\ mutation = <<>>
    /\ mounted = FALSE
    /\ pendingEffects = FALSE
    /\ ballsRef = <<>>
    /\ pegsRef = <<>>
    /\ ballIdRef = 0
    /\ animationRef = 0
    /\ scheduled = {}
    /\ rng \in Seeds
    /\ instance = 0
    /\ landed = <<>>
    /\ plays = 0
    /\ drops = 0
    /\ tickLog = <<>>
    /\ server = ServerStart
    /\ blockchain = BlockchainStart
    /\ variant = VariantStart
    /\ handlers = <<>>
    /\ minimal = MinimalStart

Next ==
    \/ Connect
    \/ Disconnect
    \/ SetBet
    \/ PlayGame
    \/ RunEffects
    \/ Frame
    \/ MutationSettle

Spec == Init /\ [][Next]_vars

-----------------------------------------------------------------------------
(* One ball in flight, from any of a set of positions and velocities: the   *)
(* states in which the next step puts the ball on or near a peg (at its     *)
(* centre, one unit beside it, well inside its range), at a side wall, or   *)
(* across the top of the multiplier boxes.  Only frames follow.             *)

SamplePegs ==
    {GeneratePegs[i] : i \in {j \in DOMAIN GeneratePegs :
        /\ GeneratePegs[j].y = PegY(14)
        /\ GeneratePegs[j].x \in {PegX(14, 0), PegX(14, 7), PegX(14, 14)}}}

Offsets == {-12000, -1, 0, 1, 9000}
PegVx == {-12000, 0, 3000}
WallVx == {-12000, -10205, 0, 10103, 10205, 12000}
StepVy == {4700, 15700}

\* a ball this many pixels off a wall reaches it in a step at the speeds of WallVx
WallGap == 5

\* a ball in flight at (x, y) with velocity (vx, vy)
FlyingBall(x, y, vx, vy) ==
    [NewBall(x, vx, 0) EXCEPT !.y = y, !.vy = vy, !.steps = 1, !.age = 1, !.hits = 1]

\* the ball that the next integration step puts at (x, y)
BallBefore(x, y, vx, vy) ==
    FlyingBall(x - HorizontalDamping(vx), y - (vy + GRAVITY), vx, vy)

\* what holds of a ball between two frames: it is between the walls, above the
\* boxes and on no peg
InFlight(ball) ==
    /\ ball.x >= ball.radius * Scale
    /\ ball.x <= (canvasWidth - ball.radius) * Scale
    /\ ~ReachedBottom(ball)
    /\ \A i \in DOMAIN GeneratePegs : ~checkCollision(ball, GeneratePegs[i])

StepBalls ==
    {b \in {BallBefore(p.x + ox, p.y + oy, vx, vy) :
                p \in SamplePegs, ox \in Offsets, oy \in Offsets,
                vx \in PegVx, vy \in StepVy}
           \cup {FlyingBall(x, 795 * Scale, vx, vy) :
                x \in {BALL_RADIUS * Scale, (BALL_RADIUS + WallGap) * Scale,
                       (canvasWidth - BALL_RADIUS - WallGap) * Scale,
                       (canvasWidth - BALL_RADIUS) * Scale},
                vx \in WallVx, vy \in StepVy} :
        InFlight(b)}

StepInit ==
    /\ wallet = TRUE
    /\ balance \in BalanceChoices
    /\ betAmount = <<MIN_BET>>
    /\ gameState = "playing"
    /\ triggerDrop = FALSE
    /\ historyLen = 0
    /\ mutation = <<>>
    /\ mounted = TRUE
    /\ pendingEffects = FALSE
    /\ ballsRef \in {<<b>> : b \in StepBalls}
    /\ pegsRef = GeneratePegs
    /\ ballIdRef = 1
    /\ animationRef = 1
    /\ scheduled = {1}
    /\ rng \in Seeds
    /\ instance = 1
    /\ landed = <<>>
    /\ plays = 1
    /\ drops = 1
    /\ tickLog = <<>>
    /\ server = ServerStart
    /\ blockchain = BlockchainStart
    /\ variant = VariantStart
    /\ handlers = <<>>
    /\ minimal = MinimalStart

StepNext == Frame

StepSpec == StepInit /\ [][StepNext]_vars

\* the balls of StepInit that fall straight down onto the middle peg of row 14
FairInit ==
    /\ StepInit
    /\ balance = MAX_BET
    /\ ballsRef[1].vx = 0
    /\ Integrate(ballsRef[1]).x = PegX(14, 7)

\* What every step of Frame does when one callback is requested: animate stores
\* the id of the frame it requests, which is not the id it held.
FrameFires == scheduled # {} /\ animationRef' = FreshId({animationRef})

\* Animation frames keep firing while the canvas stays mounted: a requested frame
\* comes.  The steps are those of Frame; the fairness condition is put on
\* FrameFires, whose enabling condition is the request alone.
FairSpec == FairInit /\ [][StepNext]_vars /\ WF_animationRef(FrameFires)

-----------------------------------------------------------------------------
(* PlinkoCanvas with two balls in flight, as a parent that raises triggerDrop    *)
(* while a ball is falling leaves it (ballsRef is a list, and every rise of      *)
(* triggerDrop pushes a ball).  The steps are those of PlinkoCanvas itself: its   *)
(* frames, its effects after a render of the parent, and its unmounting.         *)

PairBalls ==
    {b \in StepBalls :
        \/ /\ b.vx = 0
           /\ b.vy = 4700
           /\ Integrate(b).y = PegY(14) - 12000
           /\ Integrate(b).x \in {PegX(14, 7) - 1, PegX(14, 7) + 9000}
        \/ /\ b.vx = -12000
           /\ b.x = BALL_RADIUS * Scale}

PairInit ==
    /\ wallet = TRUE
    /\ balance = MAX_BET
    /\ betAmount = <<MIN_BET>>
    /\ gameState = "playing"
    /\ triggerDrop \in BOOLEAN
    /\ pendingEffects = triggerDrop
    /\ historyLen = 0
    /\ mutation = <<>>
    /\ mounted = TRUE
    /\ ballsRef \in {<<a, [b EXCEPT !.id = 1]>> : a \in PairBalls, b \in PairBalls}
    /\ pegsRef = GeneratePegs
    /\ ballIdRef = 2
    /\ animationRef = 1
    /\ scheduled = {1}
    /\ rng = Least(Seeds)
    /\ instance = 1
    /\ landed = <<>>
    /\ plays = 2
    /\ drops = 2
    /\ tickLog = <<>>
    /\ server = ServerStart
    /\ blockchain = BlockchainStart
    /\ variant = VariantStart
    /\ handlers = <<>>
    /\ minimal = MinimalStart

PairNext ==
    \/ Frame
    \/ RunEffects
    \/ Disconnect

PairSpec == PairInit /\ [][PairNext]_vars

-----------------------------------------------------------------------------
(* The board: the page with its wallet connected and disconnected and its bet    *)
(* edited, so that PlinkoCanvas is mounted, rendered again and unmounted, and    *)
(* no game is played.                                                            *)

BoardNext ==
    \/ Connect
    \/ Disconnect
    \/ SetBet
    \/ RunEffects

BoardSpec == Init /\ [][BoardNext]_vars

-----------------------------------------------------------------------------
(* The server alone: requests to POST /api/plinko, one after another, against    *)
(* the storage as the server starts it.                                          *)

ServerInit ==
    /\ Init
    /\ rng = Least(Seeds)

ServerNext == PlinkoRequest

ServerSpec == ServerInit /\ [][ServerNext]_vars

-----------------------------------------------------------------------------
(* The page ARKlinkoBlockchain alone.                                            *)

BlockchainNext ==
    \/ BlockchainConnect
    \/ BlockchainDisconnect
    \/ BlockchainPlayGame
    \/ BlockchainBallLanded
    \/ BlockchainLandedResume
    \/ BlockchainTimerFires
    \/ BlockchainBalanceFetched

BlockchainInit ==
    /\ Init
    /\ rng = Least(Seeds)

BlockchainSpec == BlockchainInit /\ [][BlockchainNext]_vars

-----------------------------------------------------------------------------
(* The 800x600 App alone.                                                        *)

VariantNext ==
    \/ VariantConnect
    \/ VariantDisconnect
    \/ VariantSetBet
    \/ VariantPlay
    \/ VariantBallLanded
    \/ VariantNewGame

VariantInit ==
    /\ Init
    /\ rng = Least(Seeds)

VariantSpec == VariantInit /\ [][VariantNext]_vars

-----------------------------------------------------------------------------
(* The server under concurrent requests to POST /api/plinko.                     *)

RaceNext ==
    \/ PlinkoCalled
    \/ PlinkoResumed

RaceInit ==
    /\ Init
    /\ rng = Least(Seeds)

RaceSpec == RaceInit /\ [][RaceNext]_vars

-----------------------------------------------------------------------------
(* The minimal App alone.  connect() settles and the timer fires: a suspended    *)
(* call of connectWallet is resumed.                                             *)

MinimalNext ==
    \/ ConnectWallet
    \/ ConnectSettled
    \/ TimerFired
    \/ MinimalDisconnect

MinimalInit ==
    /\ Init
    /\ rng = Least(Seeds)

MinimalSpec ==
    /\ MinimalInit
    /\ [][MinimalNext]_vars
    /\ WF_minimal(ConnectSettled)
    /\ WF_minimal(TimerFired)

-----------------------------------------------------------------------------
(* Properties *)

InLog(e) == \E i \in DOMAIN tickLog : tickLog[i] = e

\* C1: onBallLanded is called at most once for a ball, in the tick in which the
\* ball's y first exceeds boxY - radius, and that tick removes the ball from
\* ballsRef: no landing is reported twice, no ball left in ballsRef is past the top
\* of the boxes, and no ball left in ballsRef has been reported.
C1_LandsOnceAndLeaves ==
    /\ \A i, j \in DOMAIN landed :
          (landed[i].inst = landed[j].inst /\ landed[i].id = landed[j].id) => i = j
    /\ \A i \in DOMAIN ballsRef : ~ReachedBottom(ballsRef[i])
    /\ \A i \in DOMAIN ballsRef, j \in DOMAIN landed :
          ~(landed[j].inst = instance /\ landed[j].id = ballsRef[i].id)

\* the tick that reported the first landing has just run and ballsRef is empty
C1_BallLandedAndGone ==
    /\ InLog("onBallLanded")
    /\ Len(landed) = 1
    /\ ballsRef = <<>>

\* C2: whatever the ball's x at landing, the slot index is within
\* 0..MULTIPLIERS.length - 1 and the multiplier passed to onBallLanded is the
\* element of MULTIPLIERS at that index.
C2_SlotIndexInRange ==
    \A i \in DOMAIN landed :
        /\ landed[i].slot \in 0..(Len(MULTIPLIERS) - 1)
        /\ landed[i].multiplier = MULTIPLIERS[landed[i].slot + 1]

\* a ball has landed with its centre on or beyond the right edge of the canvas
C2_LandedBeyondEdge ==
    \E i \in DOMAIN landed :
        /\ landed[i].x >= canvasWidth * Scale
        /\ landed[i].slot = Len(MULTIPLIERS) - 1

C4_OneBallPerPlay ==
    /\ drops + (IF triggerDrop THEN 1 ELSE 0) = plays
    /\ triggerDrop => pendingEffects
    /\ \A i \in DOMAIN ballsRef :
          ballsRef[i].steps = 0 =>
              /\ ballsRef[i].y = 50 * Scale
              /\ ballsRef[i].vy = 0
              /\ Abs(ballsRef[i].x - (canvasWidth * Scale) \div 2) <= 10 * Scale
              /\ Abs(ballsRef[i].vx) <= Scale

\* the second accepted play has dropped its ball and triggerDrop is reset
C4_SecondBallDropped ==
    /\ plays = 2
    /\ drops = 2
    /\ ~triggerDrop
    /\ Len(ballsRef) = 1
    /\ ballsRef[1].steps = 0

\* the phases of a tick: physics, landings, rendering, the request of the next frame
Phase(e) ==
    IF e \in {"integrate", "pegs", "wall"} THEN 1
    ELSE IF e \in {"landing", "onBallLanded"} THEN 2
    ELSE IF e \in {"drawPegs", "drawSlots", "drawBall"} THEN 3
    ELSE 4

LandedSteps == <<"integrate", "pegs", "landing", "onBallLanded">>
KeptSteps == <<"integrate", "pegs", "landing", "wall", "drawBall">>

RECURSIVE BallSteps(_)
BallSteps(log) ==
    \/ log = <<>>
    \/ /\ Len(log) >= Len(LandedSteps)
       /\ SubSeq(log, 1, Len(LandedSteps)) = LandedSteps
       /\ BallSteps(SubSeq(log, Len(LandedSteps) + 1, Len(log)))
    \/ /\ Len(log) >= Len(KeptSteps)
       /\ SubSeq(log, 1, Len(KeptSteps)) = KeptSteps
       /\ BallSteps(SubSeq(log, Len(KeptSteps) + 1, Len(log)))

C6_OneCallbackOneStep ==
    /\ mounted => (Cardinality(scheduled) = 1 /\ animationRef \in scheduled)
    /\ \A i \in DOMAIN ballsRef : ballsRef[i].steps = ballsRef[i].age

\* the effects have run again after a landing, and the ball of the next play has
\* been stepped
C6_SteppedAfterRecreation ==
    /\ mounted
    /\ ~pendingEffects
    /\ landed # <<>>
    /\ \E i \in DOMAIN ballsRef : ballsRef[i].steps >= 2

\* C7: once PlinkoCanvas is unmounted no frame callback is scheduled, no ball is
\* stepped and onBallLanded is not called.
C7_NoTickAfterTeardown ==
    [][~mounted' => (scheduled' = {} /\ ballsRef' = ballsRef /\ landed' = landed)]_vars

\* PlinkoCanvas has been unmounted with a ball in flight
C7_TornDownInFlight ==
    /\ ~mounted
    /\ instance >= 1
    /\ \E i \in DOMAIN ballsRef : ballsRef[i].steps >= 1
    /\ scheduled = {}

\* ball i is stepped and kept, and no peg changes it
FreeStep(i) ==
    /\ i \in DOMAIN ballsRef'
    /\ ballsRef'[i].id = ballsRef[i].id
    /\ ballsRef'[i].steps = ballsRef[i].steps + 1
    /\ ballsRef'[i].hits = ballsRef[i].hits

\* C8: a step sets vy_new = vy_old + GRAVITY and vx_new = vx_old *
\* HORIZONTAL_DAMPING and then adds the new velocity to the position, so a ball
\* dropped at rest that no peg has changed has y = y0 + GRAVITY * N * (N + 1) / 2
\* and vy = GRAVITY * N after N steps.
C8_VelocityThenPosition ==
    [][/\ \A i \in DOMAIN ballsRef :
             FreeStep(i) =>
                /\ ballsRef'[i].vy = ballsRef[i].vy + GRAVITY
                /\ ballsRef'[i].y = ballsRef[i].y + ballsRef'[i].vy
                /\ ~AtWall(Integrate(ballsRef[i])) =>
                      /\ ballsRef'[i].vx = HorizontalDamping(ballsRef[i].vx)
                      /\ ballsRef'[i].x = ballsRef[i].x + ballsRef'[i].vx
       /\ \A i \in DOMAIN ballsRef' :
             (ballsRef'[i].hits = 0 /\ ~ballsRef'[i].nan) =>
                /\ ballsRef'[i].vy = GRAVITY * ballsRef'[i].steps
                /\ ballsRef'[i].y = 50 * Scale
                      + (GRAVITY * ballsRef'[i].steps * (ballsRef'[i].steps + 1)) \div 2
      ]_vars

\* a ball has fallen ten steps and no peg has changed it
C8_TenFreeSteps ==
    \E i \in DOMAIN ballsRef : ballsRef[i].hits = 0 /\ ballsRef[i].steps >= 10

ContactTolerance == 5

\* C9: after every resolution of a hit the distance between the ball's centre and
\* the peg's centre is ball.radius + peg.radius (within ContactTolerance
\* thousandths of a pixel), so no ball's position is NaN.
C9_ContactAfterResolution ==
    \A i \in DOMAIN ballsRef :
        /\ ~ballsRef[i].nan
        /\ ballsRef[i].dev <= ContactTolerance

\* ball i is integrated onto the centre of a peg
OnPegCentre(i) ==
    \E j \in DOMAIN pegsRef :
        /\ Integrate(ballsRef[i]).x = pegsRef[j].x
        /\ Integrate(ballsRef[i]).y = pegsRef[j].y

\* C10: when the ball's centre and a peg's centre coincide the resolver treats the
\* pair as not colliding: the tick leaves the ball as the integration left it, and
\* its position and velocity are not NaN.
C10_CoincidentPegSkipped ==
    [][\A i \in DOMAIN ballsRef :
          (~ballsRef[i].nan /\ OnPegCentre(i)) =>
              /\ i \in DOMAIN ballsRef'
              /\ ~ballsRef'[i].nan
              /\ ballsRef'[i].x = Integrate(ballsRef[i]).x
              /\ ballsRef'[i].y = Integrate(ballsRef[i]).y
              /\ ballsRef'[i].vx = Integrate(ballsRef[i]).vx
              /\ ballsRef'[i].vy = Integrate(ballsRef[i]).vy
      ]_vars

\* ball i is stepped and kept, and one peg changes it
OneHit(i) ==
    /\ i \in DOMAIN ballsRef'
    /\ ballsRef'[i].id = ballsRef[i].id
    /\ ballsRef'[i].steps = ballsRef[i].steps + 1
    /\ ballsRef'[i].hits = ballsRef[i].hits + 1
    /\ ~ballsRef'[i].nan

\* the normal of the hit of ball on the first peg it is on
HitNormalAt(ball, peg) == Normal(ball.x - peg.x, ball.y - peg.y)
HitNormal(ball) == HitNormalAt(ball, pegsRef[NextHit(ball, pegsRef, 1)])

\* the component of the velocity (vx, vy) along n, and the one across it
Along(vx, vy, n) == TDiv(vx * n.x + vy * n.y, NormScale)
Across(vx, vy, n) == TDiv(vy * n.x - vx * n.y, NormScale)

VelocityTolerance == 5

\* (vx, vy) is the velocity of ball reflected about n and multiplied by 0.7: the
\* component along n is reversed, the one across n is kept, both damped
ReflectedDamped(ball, n, vx, vy) ==
    /\ Abs(Along(vx, vy, n) + BounceDamping(Along(ball.vx, ball.vy, n))) <= VelocityTolerance
    /\ Abs(Across(vx, vy, n) - BounceDamping(Across(ball.vx, ball.vy, n))) <= VelocityTolerance

\* (vx, vy) is that velocity but for a push of at most 0.25 on vx
ReflectedButForPush(ball, n, vx, vy) ==
    \E push \in -(Scale \div 4)..(Scale \div 4) : ReflectedDamped(ball, n, vx - push, vy)

\* C11: on a hit the velocity becomes the reflection of the incoming velocity
\* about the collision normal multiplied by BOUNCE_DAMPING in both components, but
\* for a push of at most 0.25 on vx; vy has no random part.
C11_ReflectionDampedPushOnVx ==
    [][\A i \in DOMAIN ballsRef :
          OneHit(i) =>
              ReflectedButForPush(Integrate(ballsRef[i]), HitNormal(Integrate(ballsRef[i])),
                                  ballsRef'[i].vx, ballsRef'[i].vy)
      ]_vars

\* a peg has sent a ball upward and to the side
C11_BouncedOff ==
    \E i \in DOMAIN ballsRef :
        /\ ballsRef[i].hits = 2
        /\ ballsRef[i].steps = 2
        /\ ~ballsRef[i].nan
        /\ ballsRef[i].vy < 0
        /\ ballsRef[i].vx # 0

\* C12: a ball at the left boundary (x = radius) with negative vx has, after the
\* next step in which it neither lands nor hits a peg, its vx inverted and
\* multiplied by BOUNCE_DAMPING and its x clamped to radius; at the right boundary
\* (x = width - radius, positive vx) x is clamped to width - radius.
C12_WallInvertsAndClamps ==
    [][\A i \in DOMAIN ballsRef :
          FreeStep(i) =>
              /\ (ballsRef[i].x = ballsRef[i].radius * Scale /\ ballsRef[i].vx < 0) =>
                    /\ ballsRef'[i].x = ballsRef[i].radius * Scale
                    /\ ballsRef'[i].vx > 0
                    /\ ballsRef'[i].vx = TDiv(7 * (-HorizontalDamping(ballsRef[i].vx)), 10)
              /\ (ballsRef[i].x = (canvasWidth - ballsRef[i].radius) * Scale
                      /\ ballsRef[i].vx > 0) =>
                    /\ ballsRef'[i].x = (canvasWidth - ballsRef[i].radius) * Scale
                    /\ ballsRef'[i].vx < 0
                    /\ ballsRef'[i].vx = -TDiv(7 * HorizontalDamping(ballsRef[i].vx), 10)
      ]_vars

\* a ball that was at the left boundary is back on it after one step, moving right
C12_BouncedOffLeftWall ==
    \E i \in DOMAIN ballsRef :
        /\ ballsRef[i].steps = 2
        /\ ballsRef[i].hits = 1
        /\ ballsRef[i].x = ballsRef[i].radius * Scale
        /\ ballsRef[i].vx > 0

\* slot is floor(x / (canvasWidth / MULTIPLIERS.length)) clamped to the slots: the
\* box of slot holds x, or slot is the first or the last and x is beyond it
SlotOf(x, slot) ==
    /\ slot \in 0..(Len(MULTIPLIERS) - 1)
    /\ (slot > 0) => (slot * canvasWidth * Scale <= x * Len(MULTIPLIERS))
    /\ (slot < Len(MULTIPLIERS) - 1) =>
           (x * Len(MULTIPLIERS) < (slot + 1) * canvasWidth * Scale)

\* C13: the multiplier passed to onBallLanded is MULTIPLIERS[clamp(floor(ball.x /
\* (canvasWidth / MULTIPLIERS.length)), 0, MULTIPLIERS.length - 1)] for the ball's
\* x at the landing tick; x = 1399.9 gives index 18, and so does x >= 1400.
C13_MultiplierOfSlot ==
    \A i \in DOMAIN landed :
        /\ SlotOf(landed[i].x, landed[i].slot)
        /\ landed[i].multiplier = MULTIPLIERS[landed[i].slot + 1]
        /\ (landed[i].x * 10 >= 13999 * Scale) => (landed[i].slot = 18)

\* balls have landed at x = 1399.9 and at x = 1400
C13_LandedInLastSlot ==
    \E i \in DOMAIN landed :
        /\ landed[i].x * 10 = 13999 * Scale
        /\ landed[i].slot = 18
        /\ landed[i].multiplier = 1000

\* the state of Math.random() after k calls from the state rs
RECURSIVE Drawn(_, _)
Drawn(rs, k) == IF k = 0 THEN rs ELSE Drawn(NextRandom(rs), k - 1)

\* the balls of ballsRef after the step that have the id of ball
After(ball) == {j \in DOMAIN ballsRef' : ballsRef'[j].id = ball.id}

SameMotion(a, b) ==
    a.nan = b.nan /\ a.x = b.x /\ a.y = b.y /\ a.vx = b.vx /\ a.vy = b.vy

\* the step leaves ball as the filter callback, run on ball alone, leaves it (res)
LeftAs(ball, res) ==
    IF res.keep
    THEN \E j \in After(ball) : SameMotion(ballsRef'[j], res.ball)
    ELSE /\ After(ball) = {}
         /\ \E m \in (Len(landed) + 1)..Len(landed') :
               /\ landed'[m].id = ball.id
               /\ landed'[m].x = res.ball.x

\* the step has stepped ball as if it were the only one, with the random numbers
\* that follow those the balls before it have taken
SteppedAlone(ball) ==
    \E k \in 0..Len(ballsRef) : LeftAs(ball, StepBall(ball, Drawn(rng, k), pegsRef))

\* C14: stepping a ball in a tick changes only that ball: every ball is left by
\* a tick as it would be without the other balls (in position, velocity and
\* membership of ballsRef), and a step that is no tick leaves every ball as it is.
C14_BallsSteppedApart ==
    [][\A i \in DOMAIN ballsRef :
          \/ /\ i \in DOMAIN ballsRef'
             /\ ballsRef'[i] = ballsRef[i]
          \/ /\ tickLog' # <<>>
             /\ SteppedAlone(ballsRef[i])
      ]_vars

\* the first of two balls has landed in a tick that has stepped the other one
C14_OneLandedOtherStepped ==
    /\ instance = 1
    /\ Len(landed) = 1
    /\ landed[1].id = 0
    /\ InLog("onBallLanded")
    /\ InLog("drawBall")
    /\ \E i \in DOMAIN ballsRef : ballsRef[i].id = 1 /\ ballsRef[i].hits >= 2

PegTolerance == 3

\* q is the mirror image of p about the vertical line through the middle of the
\* canvas (within PegTolerance thousandths of a pixel)
Mirror(p, q) ==
    /\ q.y = p.y
    /\ Abs(q.x - (canvasWidth * Scale - p.x)) <= PegTolerance

\* C15: the board is left-right symmetric: for every generated peg (x, y) there
\* is a generated peg (canvasWidth - x, y), and MULTIPLIERS[i] =
\* MULTIPLIERS[MULTIPLIERS.length - 1 - i] for every slot index i.
C15_BoardSymmetric ==
    /\ \A i \in DOMAIN pegsRef : \E j \in DOMAIN pegsRef : Mirror(pegsRef[i], pegsRef[j])
    /\ \A k \in DOMAIN MULTIPLIERS : MULTIPLIERS[k] = MULTIPLIERS[Len(MULTIPLIERS) + 1 - k]

\* the pegs are generated, the first peg of row 1 (shifted right by half a
\* spacing) and its mirror image among them
C15_ShiftedRowGenerated ==
    /\ mounted
    /\ \E i, j \in DOMAIN pegsRef :
          /\ pegsRef[i].y = PegY(1)
          /\ pegsRef[i].x = PegX(1, 0)
          /\ pegsRef[i].x > playAreaLeft * Scale
          /\ i # j
          /\ Mirror(pegsRef[i], pegsRef[j])

\* how many pegs of pegsRef are in a row
RowCount(row) == Cardinality({i \in DOMAIN pegsRef : pegsRef[i].y = PegY(row)})

Rows == 0..(numRows - 1)

\* C16 as stated: row 0 holds 6 pegs and no row holds fewer; the last row holds
\* 19 pegs and no row holds more.
C16_SixToNineteen ==
    mounted =>
        /\ RowCount(0) = 6
        /\ \A row \in Rows : RowCount(0) <= RowCount(row)
        /\ RowCount(numRows - 1) = 19
        /\ \A row \in Rows : RowCount(row) <= RowCount(numRows - 1)

\* C16: row 0 holds 6 pegs; every odd row holds one peg less than the pegsInRow
\* computed for it, so that row 1 holds 5 pegs, the fewest, and the last row
\* holds 18 pegs, as many as row 18 and more than any other row.
C16_OddRowsOneLess ==
    mounted =>
        /\ RowCount(0) = 6
        /\ \A row \in Rows : RowCount(row) = PegsInRow(row) - (row % 2)
        /\ RowCount(1) = 5
        /\ \A row \in Rows : RowCount(1) <= RowCount(row)
        /\ RowCount(numRows - 1) = 18
        /\ RowCount(numRows - 2) = 18
        /\ \A row \in Rows : RowCount(row) <= RowCount(numRows - 1)

\* the pegs are generated: 19 are computed for the last row and fewer are kept
C16_LastRowGenerated ==
    /\ mounted
    /\ PegsInRow(numRows - 1) = 19
    /\ RowCount(numRows - 1) > 0
    /\ RowCount(numRows - 1) < PegsInRow(numRows - 1)

\* C17: every peg of the generated set has playAreaLeft <= x <= playAreaRight and
\* playAreaTop <= y <= playAreaBottom, and a peg whose computed x (with the half
\* spacing of the odd rows) is outside this range is not in the set.
C17_PegsInPlayArea ==
    /\ \A i \in DOMAIN pegsRef :
          /\ playAreaLeft * Scale <= pegsRef[i].x
          /\ pegsRef[i].x <= playAreaRight * Scale
          /\ playAreaTop * Scale <= pegsRef[i].y
          /\ pegsRef[i].y <= playAreaBottom * Scale
    /\ mounted =>
          \A row \in Rows : \A col \in 0..(PegsInRow(row) - 1) :
              (PegX(row, col) < playAreaLeft * Scale \/ PegX(row, col) > playAreaRight * Scale)
                  => ~\E i \in DOMAIN pegsRef :
                         pegsRef[i].x = PegX(row, col) /\ pegsRef[i].y = PegY(row)

\* the pegs are generated, without the last peg computed for the last row, which
\* is right of the play area
C17_LastPegDropped ==
    /\ mounted
    /\ pegsRef # <<>>
    /\ PegX(numRows - 1, PegsInRow(numRows - 1) - 1) > playAreaRight * Scale
    /\ \A i \in DOMAIN pegsRef : pegsRef[i].x <= playAreaRight * Scale

\* C18: the peg set is a fixed function of the board configuration: once it is
\* generated no drop, tick, collision, landing or render changes pegsRef, and
\* generating it again (a new mount) gives the same pegs.
C18_PegsFixed == [][pegsRef # <<>> => pegsRef' = pegsRef]_vars

\* PlinkoCanvas is mounted for the second time, after a ball has landed, and the
\* pegs are generated
C18_GeneratedAgain ==
    /\ mounted
    /\ instance = 2
    /\ landed # <<>>
    /\ Len(pegsRef) > numRows

\* the bet typed is a number with MIN_BET <= bet <= MAX_BET and bet <= balance
BetWithinLimits ==
    /\ betAmount # <<>>
    /\ MIN_BET <= betAmount[1]
    /\ betAmount[1] <= MAX_BET
    /\ betAmount[1] <= balance

\* C19: playGame sets gameState to 'playing' and raises triggerDrop only if the
\* parsed bet satisfies MIN_BET <= bet <= MAX_BET and bet <= balance; with any
\* other bet gameState and triggerDrop stay as they are, and no ball is dropped
\* unless triggerDrop is raised.
C19_GameStartsOnValidBet ==
    [][/\ ((gameState' = "playing" /\ gameState # "playing") \/ (triggerDrop' /\ ~triggerDrop))
            => (gameState' = "playing" /\ triggerDrop' /\ BetWithinLimits)
       /\ (drops' # drops) => triggerDrop
      ]_vars

\* a game has started on a bet of MAX_BET, which is the whole balance
C19_StartedOnLargestBet ==
    /\ gameState = "playing"
    /\ triggerDrop
    /\ betAmount = <<MAX_BET>>
    /\ balance = MAX_BET

\* C20: POST /api/plinko accepts a bet only if 0.0001 <= bet <= 5 and bet <= the
\* user's balance; a request with any other bet (below the minimum, zero,
\* negative, above 5, above the balance or non-numeric) is answered with status
\* 400 and leaves the balance, the game records and the seed nonce as they were.
ServerMinBet == 10000

ValidBet(bet, userBalance) ==
    /\ ~bet.nan
    /\ ~userBalance.nan
    /\ bet.v >= ServerMinBet
    /\ bet.v <= 5 * AmountScale
    /\ bet.v <= userBalance.v

C20_OtherBetsRejected ==
    [][(/\ server'.request # <<>>
        /\ ~ValidBet(ParsedFloat(server'.request[1].betAmount),
                     ParsedFloat(server.balance)))
       => /\ server'.status = 400
          /\ server'.balance = server.balance
          /\ server'.games = server.games
          /\ server'.seed = server.seed]_vars

\* C21: the multiplier and the payout POST /api/plinko records for a game are
\* determined by the active seed (serverSeed, clientSeed, nonce) and the bet: a
\* second request run against the same storage with the same bet records the same
\* multiplier and payout, whatever else its body carries (stated for the bets
\* within the limits).
LastGame(s) == s.games[Len(s.games)]

SameResult(g, h) == g.multiplier = h.multiplier /\ g.payout = h.payout

\* the storage after the request of this step had carried another multiplier
Replayed(s, body, multiplier) ==
    Plinko(s, [body EXCEPT !.multiplier = multiplier],
           ParsedFloat(s.balance), ParsedFloat(body.betAmount))

C21_ResultFromSeedAndBet ==
    [][(/\ server'.status = 200
        /\ server'.games # server.games
        /\ ValidBet(ParsedFloat(server'.request[1].betAmount),
                    ParsedFloat(server.balance)))
       => \A multiplier \in BodyMultipliers :
             Replayed(server, server'.request[1], multiplier).status = 200
             => SameResult(LastGame(Replayed(server, server'.request[1], multiplier)),
                           LastGame(server'))]_vars

\* the ball's centre is nearer to the peg's than ball.radius + peg.radius, by more
\* than ContactTolerance
Overlaps(ball, peg) ==
    Within(ball.x - peg.x, ball.y - peg.y,
           (ball.radius + peg.radius) * Scale - ContactTolerance)

\* the ball has been through a tick and is still in ballsRef
Ticked(ball) == ball.nan \/ ball.steps >= 1

\* C22: at the end of every tick every ball left in ballsRef is at distance
\* >= ball.radius + peg.radius from every peg (within ContactTolerance thousandths
\* of a pixel): resolving one hit, or the wall clamp, neither leaves nor creates an
\* overlap with another peg.
C22_ClearOfEveryPeg ==
    \A i \in DOMAIN ballsRef :
        Ticked(ballsRef[i]) =>
            /\ ~ballsRef[i].nan
            /\ \A j \in DOMAIN pegsRef : ~Overlaps(ballsRef[i], pegsRef[j])

\* the ball is within the walls; after a tick it is on a wall exactly when the
\* wall-bounce branch fired in that tick, and then it does not move into that wall
AwayFromWalls(ball) ==
    /\ ball.x >= ball.radius * Scale
    /\ ball.x <= (canvasWidth - ball.radius) * Scale
    /\ (ball.x = ball.radius * Scale) => ball.vx >= 0
    /\ (ball.x = (canvasWidth - ball.radius) * Scale) => ball.vx <= 0

\* C23: whenever the wall-bounce branch fires the resulting vx points away from
\* the wall or is zero (vx >= 0 after a left-wall bounce, vx <= 0 after a
\* right-wall bounce), and every ball that survives a tick has
\* radius <= x <= canvasWidth - radius: a ball that is within the walls and not
\* moving into one is so again after every tick it survives.
C23_BouncesAwayWithinWalls ==
    [][\A i \in DOMAIN ballsRef : \A j \in DOMAIN ballsRef' :
          (/\ ballsRef'[j].id = ballsRef[i].id
           /\ ballsRef'[j] # ballsRef[i]
           /\ ~ballsRef[i].nan
           /\ AwayFromWalls(ballsRef[i]))
          => (~ballsRef'[j].nan /\ AwayFromWalls(ballsRef'[j]))]_vars

\* something is under way that will set gameState back to 'idle': a drop has been
\* triggered, a ball is in flight on the mounted canvas, or the play request is
\* pending
GameUnderWay ==
    \/ triggerDrop
    \/ mounted /\ ballsRef # <<>>
    \/ mutation # <<>>

\* C24: in the ARKlinko page gameState 'playing' returns to 'idle' for every
\* interleaving of user actions, disconnecting the wallet while the ball is in
\* flight and connecting again included: the game is never in 'playing' with no
\* drop triggered, no ball in flight and no request pending.
C24_PlayingComesToAnEnd == gameState = "playing" => GameUnderWay

\* C25: in ARKlinkoBlockchain, once handleDisconnect has set the wallet to null it
\* stays null until onWalletConnected is called by a new connect: no balance
\* refresh scheduled by an earlier landing sets it back to a wallet.
C25_NullUntilConnected ==
    [][(blockchain.wallet = NoWallet /\ blockchain'.wallet # NoWallet)
       => blockchain'.connects = blockchain.connects + 1]_vars

\* C26: in the 800x600 App the bet handleBallLanded uses to compute and record
\* the payout of a game is the bet handlePlay validated (0.01 <= bet <= 5) when
\* the game's ball was dropped.
C26_LandedBetIsPlayedBet ==
    \A i \in DOMAIN variant.gameHistory :
        /\ variant.gameHistory[i].bet = variant.gameHistory[i].dropped
        /\ PlayableBet(variant.gameHistory[i].bet)

\* C27: in the 800x600 App the entries of gameHistory carry distinct, strictly
\* increasing game ids: an entry's id is greater than the id of every entry
\* recorded before it (the newest entry comes first).
C27_GameIdsIncrease ==
    \A i, j \in DOMAIN variant.gameHistory :
        i < j => variant.gameHistory[i].id > variant.gameHistory[j].id

\* what the games have paid less what was bet on them, in units
RECURSIVE NetOfGames(_)
NetOfGames(games) ==
    IF games = <<>> THEN 0
    ELSE ParsedFloat(Head(games).payout).v - ParsedFloat(Head(games).betAmount).v
         + NetOfGames(Tail(games))

\* C28: under any interleaving of concurrent requests to POST /api/plinko at their
\* await points, each accepted play is recorded with the seed's current nonce and
\* raises it by exactly 1: no two recorded games share a nonce, and once every
\* request is answered the nonce has grown by the number of games and the balance
\* reflects every game.
C28_NoncesDistinctBalanceComplete ==
    /\ \A i, j \in DOMAIN server.games :
          i # j => server.games[i].nonce # server.games[j].nonce
    /\ handlers = <<>> =>
          /\ server.seed.nonce = ServerStart.seed.nonce + Len(server.games)
          /\ server.balance = <<ServerStart.balance[1] + NetOfGames(server.games)>>

\* the step ends a call of connectWallet
CallEnds == minimal.call # <<>> /\ minimal'.call = <<>>

=============================================================================
